---- MODULE Spec2Model ----
(***************************************************************************)
(* Model of the proposal generator: the pricing engine                      *)
(* (lib/pricing_calculator.js) and the narrative fill run                   *)
(* (lib/llm_batch_executor.js, groq_adapter.js, model_config.js,            *)
(* validate.js, html_final_pass.js, pipeline.js).                           *)
(*                                                                         *)
(* Money is in whole dollars.  A price that JavaScript holds as a double is *)
(* held here as an exact fraction num / PriceDen; Math.round is "round half *)
(* up".  Text is a sequence of one-character strings.                       *)
(***************************************************************************)
EXTENDS Integers, Sequences, FiniteSets, TLC

VARIABLES
    \* ---- pricing engine ----
    cfg,          \* the loaded pricing configuration (pricing/*.json)
    audit,        \* the audit extract handed to calculatePricing
    opts,         \* <<the options handed to calculatePricing>>, or <<>> before the call
    breakdown,    \* <<the PricingBreakdown returned>>, or <<>> before the call
    \* ---- narrative fill run and pipeline ----
    run,          \* per-run inputs: useGroq, apiKey, slot names
    doc,          \* the document: slot -> value (the proposal before fill)
    filled,       \* the document returned by fill (once fillPc = "returned")
    pc,           \* per request: position in generateSingleContent
    attempt,      \* per request: the loop counter of the generate loop
    bodyModel,    \* per request: model index the request in flight was sent to
    lastErr,      \* per request: kind of the last error caught (lastError)
    tried,        \* per request: the models its calls so far were sent to
    calls,        \* per request: the number of fetch calls it has issued
    results,      \* per request: <<the entry pushed on results>>, or <<>>
    model,        \* adapter.currentModel / this.model, as index into the order
    batchNo,      \* index of the batch being awaited (0 before the first)
    fillPc,       \* position of fillProposalPlaceholders
    hist,         \* history of the run, for the properties only
    pipe,         \* pipeline position and result record
    \* ---- library functions called on their own ----
    call,         \* <<the function called and its arguments>>, or <<>>
    ret           \* <<what the call returned>>, or <<>> before it returns

pricingVars == <<cfg, audit, opts, breakdown>>
fillVars == <<run, doc, filled, pc, attempt, bodyModel, lastErr, tried, calls, results,
              model, batchNo, fillPc, hist, pipe>>
vars == <<cfg, audit, opts, breakdown, run, doc, filled, pc, attempt, bodyModel,
          lastErr, tried, calls, results, model, batchNo, fillPc, hist, pipe, call, ret>>
libVars == <<call, ret>>

NoValue == "none"

(***************************************************************************)
(* Text helpers                                                            *)
(***************************************************************************)
Max(a, b) == IF a >= b THEN a ELSE b
Min(a, b) == IF a <= b THEN a ELSE b

UpperToLower ==
    [A |-> "a", B |-> "b", C |-> "c", H |-> "h", M |-> "m", Q |-> "q", S |-> "s", T |-> "t"]

\* String.prototype.toLowerCase, character by character
toLowerCase(s) ==
    [i \in 1..Len(s) |-> IF s[i] \in DOMAIN UpperToLower THEN UpperToLower[s[i]] ELSE s[i]]

\* String.prototype.includes
includes(s, sub) ==
    \E i \in 0..(Len(s) - Len(sub)) : \A j \in 1..Len(sub) : s[i + j] = sub[j]

(***************************************************************************)
(* Pricing configuration (pricing/base_rates.json,                          *)
(* pricing/complexity_multipliers.json, pricing/discount_rules.json).       *)
(* The files are data read once at load; the tables below are one valid     *)
(* configuration.  rounding_increment, minimum_project_value and            *)
(* discount_stacking vary with cfg.  A multiplier is held as its numerator  *)
(* over MultScale.                                                          *)
(***************************************************************************)
MultScale == 2
NumFactors == 6
RECURSIVE Pow(_, _)
Pow(b, e) == IF e = 0 THEN 1 ELSE b * Pow(b, e - 1)
PriceDen == Pow(MultScale, NumFactors)

HourlyRates ==
    [ai_engineering |-> 200, integration_development |-> 160, system_design |-> 180,
     testing_qa |-> 100, project_management |-> 120, training_documentation |-> 80]

EffortTiers == [trivial |-> 4, moderate |-> 16, complex |-> 32, critical |-> 60]

MilestoneAllocation == [design |-> 20, build |-> 45, test |-> 15, deploy |-> 20]

SystemsRanges == [r12 |-> 2, r34 |-> 3, r56 |-> 4, r7plus |-> 4]
IntegrationTypes == [api_available |-> 2, custom_api |-> 3, legacy_system |-> 3]
SensitivityLevels ==
    [standard |-> 2, pii_present |-> 3, hipaa_phi |-> 3, financial_regulated |-> 3,
     government_classified |-> 3]
TimelineSpeeds == [standard |-> 2, rush |-> 3]
ReadinessLevels == [standard |-> 2, low |-> 3]
IndustryMultipliers == [technology |-> 2, healthcare |-> 3, financial_services |-> 3]

NoLimit == -1    \* max_value: null
VolumeTiers ==
    << [min_value |-> 0, max_value |-> 9999, discount_percentage |-> 0],
       [min_value |-> 10000, max_value |-> 24999, discount_percentage |-> 5],
       [min_value |-> 25000, max_value |-> NoLimit, discount_percentage |-> 10] >>
CommitmentOptions == [retainer |-> 15, multi_phase |-> 10]
EarlyPaymentOptions == [upfront |-> 5]
ReferralDiscount == 10
MaximumCombinedDiscount == 25

Configs ==
    {c \in [rounding_increment : {50, 100}, minimum_project_value : {2500, 5000},
            discount_stacking : {"highest_only", "additive"}] :
        c.rounding_increment = 50 <=> c.minimum_project_value = 2500}

(***************************************************************************)
(* Exact fractions for the values JavaScript holds as doubles               *)
(***************************************************************************)
Frac(n, d) == [num |-> n, den |-> d]

\* Math.round(x): the nearest integer, a tie going up; x = n / d, d > 0, n >= 0
MathRound(n, d) == (2 * n + d) \div (2 * d)

\* Math.round(n * a / d), computed without leaving 32 bits
MathRoundScaled(n, a, d) ==
    LET q == n \div d
        r == n % d
    IN  q * a + MathRound(r * a, d)

(***************************************************************************)
(* lib/pricing_calculator.js                                               *)
(***************************************************************************)
\* roundToIncrement(price, increment) for price = n / d
roundToIncrement(n, d, increment) == MathRound(n, d * increment) * increment

kwTrivial == <<"t", "r", "i", "v", "i", "a", "l">>
kwSimple == <<"s", "i", "m", "p", "l", "e">>
kwQuick == <<"q", "u", "i", "c", "k">>
kwCritical == <<"c", "r", "i", "t", "i", "c", "a", "l">>
kwMajor == <<"m", "a", "j", "o", "r">>
kwComplex == <<"c", "o", "m", "p", "l", "e", "x">>
kwSignificant == <<"s", "i", "g", "n", "i", "f", "i", "c", "a", "n", "t">>
kwModerate == <<"m", "o", "d", "e", "r", "a", "t", "e">>

mapToEffortTier(effort) ==
    LET normalized == toLowerCase(effort)
    IN  IF includes(normalized, kwTrivial) \/ includes(normalized, kwSimple)
           \/ includes(normalized, kwQuick)
        THEN "trivial"
        ELSE IF includes(normalized, kwCritical) \/ includes(normalized, kwMajor)
                \/ includes(normalized, kwComplex)
        THEN "critical"
        ELSE IF includes(normalized, kwComplex) \/ includes(normalized, kwSignificant)
        THEN "complex"
        ELSE "moderate"

\* Sum over the skill composition of rate * weight; weights in percent
SkillWeights ==
    [ai_engineering |-> 25, integration_development |-> 35, system_design |-> 15,
     testing_qa |-> 10, project_management |-> 10, training_documentation |-> 5]

RECURSIVE SumOver(_, _)
SumOver(f, S) ==
    IF S = {} THEN 0
    ELSE LET x == CHOOSE y \in S : TRUE IN f[x] + SumOver(f, S \ {x})

\* in dollars per hour; the configured rates make the weighted sum whole
calculateWeightedRate(rates) ==
    SumOver([t \in DOMAIN SkillWeights |->
                (IF t \in DOMAIN rates THEN rates[t] ELSE 150) * SkillWeights[t]],
            DOMAIN SkillWeights) \div 100

RECURSIVE fixHours(_)
fixHours(fixes) ==
    IF fixes = <<>> THEN 0
    ELSE EffortTiers[mapToEffortTier(
             IF Head(fixes) = <<>> THEN kwModerate ELSE Head(fixes))]
         + fixHours(Tail(fixes))

calculateBasePrice(findings, auditData) ==
    LET \* auditData.recommended_fixes || []
        fixes == IF "recommended_fixes" \in DOMAIN auditData
                 THEN auditData.recommended_fixes ELSE <<>>
        hoursFromFixes == fixHours(fixes)
        categoryCount == IF findings = 0 THEN 3 ELSE findings
        totalHours == IF hoursFromFixes = 0
                      THEN categoryCount * EffortTiers.moderate
                      ELSE hoursFromFixes
    IN  totalHours * calculateWeightedRate(HourlyRates)

getSystemsMultiplier(count) ==
    IF count <= 2 THEN SystemsRanges.r12
    ELSE IF count <= 4 THEN SystemsRanges.r34
    ELSE IF count <= 6 THEN SystemsRanges.r56
    ELSE SystemsRanges.r7plus

RECURSIVE getIntegrationMultiplier(_)
getIntegrationMultiplier(types) ==
    IF types = <<>> THEN MultScale
    ELSE LET mult == IF Head(types) \in DOMAIN IntegrationTypes
                     THEN IntegrationTypes[Head(types)] ELSE MultScale
         IN  Max(mult, getIntegrationMultiplier(Tail(types)))

IndustryAliases ==
    [tech |-> "technology", software |-> "technology", saas |-> "technology",
     health |-> "healthcare", medical |-> "healthcare",
     finance |-> "financial_services", banking |-> "financial_services"]

\* on keys that are already lower-case letters and underscores
normalizeIndustry(industry) ==
    IF industry \in DOMAIN IndustryAliases THEN IndustryAliases[industry] ELSE industry

IndustryToSensitivity ==
    [healthcare |-> "hipaa_phi", financial_services |-> "financial_regulated",
     legal |-> "pii_present", government |-> "government_classified"]

Lookup(table, key) == IF key \in DOMAIN table THEN table[key] ELSE MultScale

getDataSensitivityMultiplier(industry, options) ==
    IF options.data_sensitivity # NoValue
    THEN Lookup(SensitivityLevels, options.data_sensitivity)
    ELSE LET normalized == normalizeIndustry(industry)
             sensitivity == IF normalized \in DOMAIN IndustryToSensitivity
                            THEN IndustryToSensitivity[normalized] ELSE "standard"
         IN  Lookup(SensitivityLevels, sensitivity)

assessComplexity(auditData, options) ==
    LET systemsCount == IF auditData.systems = 0 THEN 2 ELSE auditData.systems
        integrationTypes == IF auditData.integration_types = <<>>
                            THEN <<"api_available">> ELSE auditData.integration_types
        industry == IF auditData.industry = NoValue THEN "technology"
                    ELSE auditData.industry
        timelinePressure == IF options.timeline_pressure = NoValue THEN "standard"
                            ELSE options.timeline_pressure
        clientReadiness == IF options.client_readiness = NoValue THEN "standard"
                           ELSE options.client_readiness
    IN  [systems_count |-> getSystemsMultiplier(systemsCount),
         integration_difficulty |-> getIntegrationMultiplier(integrationTypes),
         data_sensitivity |-> getDataSensitivityMultiplier(industry, options),
         timeline_pressure |-> Lookup(TimelineSpeeds, timelinePressure),
         client_readiness |-> Lookup(ReadinessLevels, clientReadiness),
         industry |-> Lookup(IndustryMultipliers, normalizeIndustry(industry))]

RECURSIVE ProductOver(_, _)
ProductOver(f, S) ==
    IF S = {} THEN 1
    ELSE LET x == CHOOSE y \in S : TRUE IN f[x] * ProductOver(f, S \ {x})

calculateTotalMultiplierSkipsLast(complexity) ==
    ProductOver(complexity, DOMAIN complexity \ {"industry"}) * MultScale

\* numerator of the total multiplier over PriceDen
calculateTotalMultiplier(complexity) == ProductOver(complexity, DOMAIN complexity)

\* DISCOUNT_RULES.volume_discounts.tiers.find(...) for price = n / PriceDen;
\* 0 when no tier matches
RECURSIVE volumeTierPercentage(_, _)
volumeTierPercentage(tiers, n) ==
    IF tiers = <<>> THEN 0
    ELSE LET t == Head(tiers)
         IN  IF n >= t.min_value * PriceDen
                /\ (t.max_value = NoLimit \/ n <= t.max_value * PriceDen)
             THEN t.discount_percentage
             ELSE volumeTierPercentage(Tail(tiers), n)

\* the list "discounts" built by calculateDiscount, as percentages
applicableDiscounts(n, options) ==
    LET volume == volumeTierPercentage(VolumeTiers, n)
        v == IF volume > 0 THEN <<volume>> ELSE <<>>
        c == IF options.commitment_type # NoValue
                /\ options.commitment_type # "single_project"
                /\ options.commitment_type \in DOMAIN CommitmentOptions
             THEN <<CommitmentOptions[options.commitment_type]>> ELSE <<>>
        e == IF options.payment_terms # NoValue /\ options.payment_terms # "net_15"
                /\ options.payment_terms \in DOMAIN EarlyPaymentOptions
             THEN <<EarlyPaymentOptions[options.payment_terms]>> ELSE <<>>
        r == IF options.is_referral THEN <<ReferralDiscount>> ELSE <<>>
    IN  v \o c \o e \o r

RECURSIVE SeqSum(_)
SeqSum(q) == IF q = <<>> THEN 0 ELSE Head(q) + SeqSum(Tail(q))

RECURSIVE SeqMax(_)
SeqMax(q) == IF q = <<>> THEN 0 ELSE Max(Head(q), SeqMax(Tail(q)))

\* the stacking rule
stackDiscounts(discounts, c) ==
    IF c.discount_stacking = "highest_only" /\ Len(discounts) > 0
    THEN SeqMax(discounts)
    ELSE SeqSum(discounts)

capDiscountUncapped(totalPercentage) == totalPercentage

\* Math.min(totalPercentage, DISCOUNT_RULES.maximum_combined_discount)
capDiscount(totalPercentage) == Min(totalPercentage, MaximumCombinedDiscount)

calculateDiscount(n, options, c) ==
    LET discounts == applicableDiscounts(n, options)
        totalPercentage == capDiscount(stackDiscounts(discounts, c))
    IN  [discounts_applied |-> discounts,
         total_percentage |-> totalPercentage,
         amount |-> Frac(n * totalPercentage, PriceDen * 100)]

MilestoneIncrement == 100

\* roundToIncrement(totalPrice * (percentage / 100), 100)
milestoneShare(totalPrice, percentage) ==
    MathRound(totalPrice * percentage, 100 * MilestoneIncrement) * MilestoneIncrement

deployAmountRounded(totalPrice, designAmount, buildAmount, testAmount) ==
    milestoneShare(totalPrice, MilestoneAllocation.deploy)

\* the last milestone gets the remainder
deployAmount(totalPrice, designAmount, buildAmount, testAmount) ==
    totalPrice - designAmount - buildAmount - testAmount

allocateMilestones(totalPrice) ==
    LET designAmount == milestoneShare(totalPrice, MilestoneAllocation.design)
        buildAmount == milestoneShare(totalPrice, MilestoneAllocation.build)
        testAmount == milestoneShare(totalPrice, MilestoneAllocation.test)
    IN  [design |-> [percentage |-> MilestoneAllocation.design, amount |-> designAmount],
         build |-> [percentage |-> MilestoneAllocation.build, amount |-> buildAmount],
         test |-> [percentage |-> MilestoneAllocation.test, amount |-> testAmount],
         deploy |-> [percentage |-> MilestoneAllocation.deploy,
                     amount |-> deployAmount(totalPrice, designAmount, buildAmount,
                                             testAmount)]]

clampUnclamped(finalPrice, c) == finalPrice

\* Math.max(finalPrice, BASE_RATES.minimum_project_value)
clampToMinimum(finalPrice, c) == Max(finalPrice, c.minimum_project_value)

DefaultAuditCredit == 100
DefaultEarlyAdopterPercent == 10

calculatePricing(auditData, options, c) ==
    LET findings == auditData.findings
        complexity == assessComplexity(auditData, options)
        basePrice == calculateBasePrice(findings, auditData)
        multiplier == calculateTotalMultiplier(complexity)
        adjusted == basePrice * multiplier
        discount == calculateDiscount(adjusted, options, c)
        \* roundToIncrement(adjustedPrice - discount.amount, rounding_increment)
        subtotal == MathRoundScaled(adjusted, 100 - discount.total_percentage,
                                    PriceDen * 100 * c.rounding_increment)
                    * c.rounding_increment
        milestones == allocateMilestones(subtotal)
        auditCreditAmount == IF options.audit_credit_amount = 0 THEN DefaultAuditCredit
                             ELSE options.audit_credit_amount
        afterCredit == subtotal - auditCreditAmount
        earlyAdopterPercent == IF options.early_adopter_percent = 0
                               THEN DefaultEarlyAdopterPercent
                               ELSE options.early_adopter_percent
        discounted == clampToMinimum(
            MathRound(afterCredit * (100 - earlyAdopterPercent),
                      100 * c.rounding_increment) * c.rounding_increment, c)
        undiscounted == clampToMinimum(
            roundToIncrement(afterCredit, 1, c.rounding_increment), c)
    IN  [base_price |-> basePrice,
         complexity_multiplier |-> Frac(multiplier, PriceDen),
         complexity_factors |-> complexity,
         adjusted_price |-> Frac(adjusted, PriceDen),
         discount |-> discount,
         subtotal |-> subtotal,
         audit_credit |-> [amount |-> auditCreditAmount],
         early_adopter_discount |->
             IF options.early_adopter # FALSE
             THEN << [percentage |-> earlyAdopterPercent,
                      amount |-> afterCredit - discounted] >>
             ELSE <<>>,
         final_price |-> IF options.early_adopter # FALSE THEN discounted ELSE undiscounted,
         milestones |-> milestones]

(***************************************************************************)
(* The narrative fill run: lib/llm_batch_executor.js, model_config.js,      *)
(* groq_adapter.js                                                          *)
(***************************************************************************)
NumSlots == 3          \* placeholder slots of the document
MaxConcurrent == 2     \* batch_config.max_concurrent of the prompt registry

GeminiOrderLen == 6    \* MODEL_FALLBACK_ORDER.length
GroqOrderLen == 2      \* GROQ_FALLBACK_ORDER.length
Retries == 2           \* retries = 2, maxRetries = options.maxRetries || 2

Slots == 1..NumSlots
Paths == 0..NumSlots   \* path 0 holds an ordinary string of the document

MappedName == "executive_summary"
UnmappedName == "unknown_section"

\* PLACEHOLDER_TO_PROMPT[name] and PROMPT_REGISTRY.prompts.find(...) both succeed
hasPrompt(name) == name = MappedName

Sentinel(name) == [kind |-> "placeholder", name |-> name]
\* the text of a successful backend response for the slot called name
Generated(name) == [kind |-> "generated", name |-> name]
Stub(name) == [kind |-> "stub", name |-> name]
DefaultText(name) == [kind |-> "default", name |-> name]
PlainText == [kind |-> "plain", name |-> "client"]

\* obj.match(/\[LLM_PLACEHOLDER:\s*([^\]]+)\]/)
isPlaceholder(v) == v.kind = "placeholder"

\* the placeholders array: one entry per slot, in traversal order
findAllPlaceholders(d) == {p \in DOMAIN d : isPlaceholder(d[p])}

placeholderOf(d, r) == [path |-> r, placeholder_name |-> d[r].name, original |-> d[r]]

OrderLen(useGroq) == IF useGroq THEN GroqOrderLen ELSE GeminiOrderLen

getNextFallbackModelWrap(current, len) == IF current >= len THEN 1 ELSE current + 1

\* getNextFallbackModel(currentModel) of model_config.js and
\* GroqAdapter.getNextFallbackModel(); models are indices into the order,
\* 0 stands for null
getNextFallbackModel(current, len) == IF current >= len THEN 0 ELSE current + 1

Batch(k) == {r \in Slots : (k - 1) * MaxConcurrent < r /\ r <= k * MaxConcurrent}
NumBatches == (NumSlots + MaxConcurrent - 1) \div MaxConcurrent
BatchOf(r) == (r + MaxConcurrent - 1) \div MaxConcurrent

Settled(r) == pc[r] = "done"
InFlight(r) == pc[r] \notin {"idle", "done"}

batchSettledAny(k) == k = 0 \/ \E r \in Batch(k) : Settled(r)

\* await Promise.all(batch.map(...)): every mapped promise has resolved
batchSettled(k) == \A r \in Batch(k) : Settled(r)

catchSlotErrorLosesOriginal(placeholder, err) ==
    [path |-> placeholder.path, content |-> Stub(placeholder.placeholder_name),
     success |-> FALSE, error |-> err]

\* the catch block of the mapped function
catchSlotError(placeholder, err) ==
    [path |-> placeholder.path, content |-> placeholder.original,
     success |-> FALSE, error |-> err]

slotSuccess(placeholder, content) ==
    [path |-> placeholder.path, content |-> content, success |-> TRUE, error |-> NoValue]

\* backend calls issued so far by request r: one per loop iteration entered
Calls(r) == IF bodyModel[r] = 0 THEN 0 ELSE attempt[r] + 1

\* what the backend can answer to one call
Outcomes(useGroq) ==
    IF useGroq THEN {"ok", "ok_json", "rate_limit", "too_large", "network", "error"}
    ELSE {"ok", "rate_limit", "too_large", "network", "error"}

\* generateSingleContent up to its first await, for every placeholder of the batch
startRequest(r) ==
    LET ph == placeholderOf(doc, r)
    IN  IF ~hasPrompt(ph.placeholder_name)
        THEN [pc |-> "done", result |-> <<slotSuccess(ph, Stub(ph.placeholder_name))>>,
              sent |-> FALSE]
        ELSE IF ~run.apiKey
        THEN [pc |-> "done", result |-> <<catchSlotError(ph, "no_api_key")>>,
              sent |-> FALSE]
        ELSE [pc |-> "inflight", result |-> <<>>, sent |-> TRUE]

StartBatch ==
    /\ fillPc = "generating"
    /\ batchNo < NumBatches
    /\ batchSettled(batchNo)
    /\ LET b == Batch(batchNo + 1)
           st == [r \in b |-> startRequest(r)]
       IN  /\ batchNo' = batchNo + 1
           /\ pc' = [r \in Slots |-> IF r \in b THEN st[r].pc ELSE pc[r]]
           /\ results' = [r \in Slots |-> IF r \in b THEN st[r].result ELSE results[r]]
           /\ bodyModel' = [r \in Slots |-> IF r \in b /\ st[r].sent THEN model
                                            ELSE bodyModel[r]]
           /\ tried' = [r \in Slots |-> IF r \in b /\ st[r].sent THEN {model}
                                        ELSE tried[r]]
           /\ calls' = [r \in Slots |-> IF r \in b /\ st[r].sent THEN 1 ELSE calls[r]]
    /\ UNCHANGED <<cfg, audit, opts, breakdown, run, doc, filled, attempt, lastErr, model,
                   fillPc, hist, pipe>>
    /\ UNCHANGED libVars

\* request r goes on: its position and its local variables
proceed(r, newPc, newAttempt, newBody, newErr) ==
    /\ pc' = [pc EXCEPT ![r] = newPc]
    /\ attempt' = [attempt EXCEPT ![r] = newAttempt]
    /\ bodyModel' = [bodyModel EXCEPT ![r] = newBody]
    /\ lastErr' = [lastErr EXCEPT ![r] = newErr]
    /\ tried' = [tried EXCEPT ![r] = IF newPc = "inflight" THEN @ \cup {newBody} ELSE @]
    /\ calls' = [calls EXCEPT ![r] = IF newPc = "inflight" THEN @ + 1 ELSE @]
    /\ UNCHANGED results

\* the mapped promise of request r resolves with entry; the locals of the
\* finished call are gone
settle(r, entry) ==
    /\ pc' = [pc EXCEPT ![r] = "done"]
    /\ results' = [results EXCEPT ![r] = <<entry>>]
    /\ attempt' = [attempt EXCEPT ![r] = 0]
    /\ bodyModel' = [bodyModel EXCEPT ![r] = 0]
    /\ lastErr' = [lastErr EXCEPT ![r] = "none"]
    /\ tried' = [tried EXCEPT ![r] = {}]
    /\ calls' = [calls EXCEPT ![r] = 0]

\* one more rate-limit answer seen in the run (counted up to the list length)
countRateLimit(h) ==
    [h EXCEPT !.rateLimits = Min(h.rateLimits + 1, OrderLen(run.useGroq))]

\* a rate-limit error that waits for the reported delay on the same model
geminiRateLimitWaitsFirst(r) ==
    /\ model' = model
    /\ hist' = countRateLimit(hist)
    /\ proceed(r, "sleepRetryAfter", attempt[r], bodyModel[r], "rate_limit")

\* a rate-limit error caught by generateWithGemini
geminiRateLimit(r) ==
    LET next == getNextFallbackModel(model, GeminiOrderLen)
    IN  IF next # 0
        THEN /\ model' = next
             /\ hist' = countRateLimit(hist)
             /\ proceed(r, "sleepSwitch", attempt[r], bodyModel[r], "rate_limit")
        ELSE /\ model' = model
             /\ hist' = [countRateLimit(hist) EXCEPT !.exhausted = TRUE]
             /\ proceed(r, "sleepRetryAfter", attempt[r], bodyModel[r], "rate_limit")

\* one answer of the backend to the call of request r, on the Gemini path:
\* the rest of the loop iteration of generateWithGemini and, when it returns
\* or throws, the rest of generateSingleContent and of the mapped function
GeminiRespond(r, o) ==
    /\ ~run.useGroq
    /\ pc[r] = "inflight"
    /\ LET ph == placeholderOf(doc, r)
       IN  CASE o = "ok" ->
                   /\ settle(r, slotSuccess(ph, Generated(ph.placeholder_name)))
                   /\ UNCHANGED <<model, hist>>
             [] o = "rate_limit" -> geminiRateLimit(r)
             [] o = "network" ->
                   /\ IF attempt[r] < Retries
                      THEN proceed(r, "sleepBackoff", attempt[r], bodyModel[r], "network")
                      ELSE settle(r, catchSlotError(ph, "network"))
                   /\ UNCHANGED <<model, hist>>
             [] OTHER ->
                   /\ settle(r, catchSlotError(ph, o))
                   /\ UNCHANGED <<model, hist>>
    /\ UNCHANGED <<cfg, audit, opts, breakdown, run, doc, filled, batchNo, fillPc, pipe>>
    /\ UNCHANGED libVars

\* a sleep that ends with a retry whatever the number of attempts made
GeminiWakeUncounted(r) ==
    /\ ~run.useGroq
    /\ pc[r] \in {"sleepSwitch", "sleepRetryAfter", "sleepBackoff"}
    /\ proceed(r, "inflight", Min(attempt[r] + 1, Retries), model, lastErr[r])
    /\ UNCHANGED <<cfg, audit, opts, breakdown, run, doc, filled, model, batchNo,
                   fillPc, hist, pipe>>
    /\ UNCHANGED libVars

\* a sleep of generateWithGemini ends: continue, attempt++, the loop test,
\* and the next call goes to adapter.currentModel; after the last iteration
\* lastError is thrown
GeminiWake(r) ==
    /\ ~run.useGroq
    /\ pc[r] \in {"sleepSwitch", "sleepRetryAfter", "sleepBackoff"}
    /\ IF attempt[r] < Retries
       THEN proceed(r, "inflight", attempt[r] + 1, model, lastErr[r])
       ELSE settle(r, catchSlotError(placeholderOf(doc, r), lastErr[r]))
    /\ UNCHANGED <<cfg, audit, opts, breakdown, run, doc, filled, model, batchNo,
                   fillPc, hist, pipe>>
    /\ UNCHANGED libVars

\* status 429 or 413 in GroqAdapter.generate
groqSwitch(r, o) ==
    LET next == getNextFallbackModel(model, GroqOrderLen)
        ph == placeholderOf(doc, r)
        h == IF o = "rate_limit" THEN countRateLimit(hist) ELSE hist
    IN  IF next # 0
        THEN /\ model' = next
             /\ hist' = h
             /\ IF attempt[r] < Retries
                THEN proceed(r, "inflight", attempt[r] + 1, next, lastErr[r])
                ELSE settle(r, catchSlotError(ph,
                            IF lastErr[r] = "none" THEN "type_error" ELSE lastErr[r]))
        ELSE /\ model' = model
             /\ hist' = [h EXCEPT !.exhausted = TRUE]
             /\ settle(r, catchSlotError(ph, o \o "_all_models"))

\* one answer of the backend to the call of request r, on the Groq path
GroqRespond(r, o) ==
    /\ run.useGroq
    /\ pc[r] = "inflight"
    /\ LET ph == placeholderOf(doc, r)
       IN  CASE o = "ok" ->
                   /\ settle(r, slotSuccess(ph, Generated(ph.placeholder_name)))
                   /\ UNCHANGED <<model, hist>>
             [] o = "ok_json" ->
                   \* postProcessOutput throws on a value that is no string
                   /\ settle(r, catchSlotError(ph, "type_error"))
                   /\ UNCHANGED <<model, hist>>
             [] o \in {"rate_limit", "too_large"} -> groqSwitch(r, o)
             [] o = "network" ->
                   /\ IF attempt[r] < Retries
                      THEN proceed(r, "sleepBackoff", attempt[r], bodyModel[r], "network")
                      ELSE settle(r, catchSlotError(ph, "network"))
                   /\ UNCHANGED <<model, hist>>
             [] OTHER ->
                   /\ settle(r, catchSlotError(ph, o))
                   /\ UNCHANGED <<model, hist>>
    /\ UNCHANGED <<cfg, audit, opts, breakdown, run, doc, filled, batchNo, fillPc, pipe>>
    /\ UNCHANGED libVars

\* the backoff sleep of GroqAdapter.generate ends: continue, attempt++, fetch
\* again with the same body
GroqWake(r) ==
    /\ run.useGroq
    /\ pc[r] = "sleepBackoff"
    /\ proceed(r, "inflight", attempt[r] + 1, bodyModel[r], lastErr[r])
    /\ UNCHANGED <<cfg, audit, opts, breakdown, run, doc, filled, model, batchNo,
                   fillPc, hist, pipe>>
    /\ UNCHANGED libVars

\* setValueAtPath(filledProposal, result.path, result.content)
setValueAtPath(obj, path, value) == [obj EXCEPT ![path] = value]

RECURSIVE applyResults(_, _, _)
applyResults(obj, res, todo) ==
    IF todo = {} THEN obj
    ELSE LET r == CHOOSE x \in todo : \A y \in todo : x <= y
         IN  applyResults(setValueAtPath(obj, res[r][1].path, res[r][1].content), res,
                          todo \ {r})

\* the loop over the batches has ended: fillProposalPlaceholders applies the
\* results to a copy of the proposal and returns it
FinishFill ==
    /\ fillPc = "generating"
    /\ batchNo = NumBatches
    /\ batchSettled(batchNo)
    /\ filled' = applyResults(doc, results, {r \in Slots : results[r] # <<>>})
    /\ fillPc' = "returned"
    /\ UNCHANGED <<cfg, audit, opts, breakdown, run, doc, pc, attempt, bodyModel, lastErr, tried, calls,
                   results, model, batchNo, hist, pipe>>
    /\ UNCHANGED libVars

(***************************************************************************)
(* The pipeline after the fill: pipeline.js generate, validate.js,          *)
(* html_final_pass.js                                                       *)
(***************************************************************************)
\* findPlaceholders(proposal) of validate.js
findPlaceholders(d) == {p \in DOMAIN d : isPlaceholder(d[p])}

validateProposalIgnoresPlaceholders(d) == TRUE

\* validateProposal(proposal).valid with allowPlaceholders = false, for a
\* document that satisfies the schema
validateProposal(d) == findPlaceholders(d) = {}

\* step 3 of manualPolishHTML: every remaining marker becomes a default text
manualPolishHTML(html) ==
    [p \in DOMAIN html |->
        IF isPlaceholder(html[p]) THEN DefaultText(html[p].name) ELSE html[p]]

\* stage 4 of generate, and stage 5 when it is reached; force is options.force
PipelineValidate(force) ==
    /\ fillPc = "returned"
    /\ pipe.pc = "llmFill"
    /\ IF ~validateProposal(filled) /\ ~force
       THEN pipe' = [pipe EXCEPT !.pc = "returned", !.force = force]
       ELSE pipe' = [pipe EXCEPT !.pc = "polish", !.force = force, !.rendered = TRUE,
                                 !.html = filled]
    /\ UNCHANGED <<cfg, audit, opts, breakdown, run, doc, filled, pc, attempt, bodyModel,
                   lastErr, tried, calls, results, model, batchNo, fillPc, hist>>
    /\ UNCHANGED libVars

\* stage 6, runFinalHtmlPass: the review call answers with usable HTML
\* ("llm"; the slots' texts are the backend's business and kept here), with
\* HTML that is refused ("kept"), or fails ("manual")
PipelinePolish(method) ==
    /\ pipe.pc = "polish"
    /\ pipe' = [pipe EXCEPT !.pc = "pdf", !.method = method,
                            !.html = IF method = "manual" THEN manualPolishHTML(pipe.html)
                                     ELSE pipe.html]
    /\ UNCHANGED <<cfg, audit, opts, breakdown, run, doc, filled, pc, attempt, bodyModel,
                   lastErr, tried, calls, results, model, batchNo, fillPc, hist>>
    /\ UNCHANGED libVars

\* stage 7 and the return of generate; the PDF export succeeds or throws
PipelinePdf(ok) ==
    /\ pipe.pc = "pdf"
    /\ pipe' = IF ok THEN [pipe EXCEPT !.pc = "returned", !.success = TRUE]
               ELSE [pipe EXCEPT !.pc = "threw"]
    /\ UNCHANGED <<cfg, audit, opts, breakdown, run, doc, filled, pc, attempt, bodyModel,
                   lastErr, tried, calls, results, model, batchNo, fillPc, hist>>
    /\ UNCHANGED libVars

(***************************************************************************)
(* Specifications                                                          *)
(***************************************************************************)
MaxFixes == 2

EffortTexts ==
    { <<>>,
      <<"Q", "u", "i", "c", "k">>,
      <<"m", "a", "j", "o", "r", " ", "w", "o", "r", "k">> }

RECURSIVE SeqsUpTo(_, _)
SeqsUpTo(S, n) ==
    IF n = 0 THEN {<<>>}
    ELSE LET shorter == SeqsUpTo(S, n - 1)
         IN  shorter \cup {Append(q, x) : q \in {t \in shorter : Len(t) = n - 1}, x \in S}

Audits ==
    [recommended_fixes : SeqsUpTo(EffortTexts, MaxFixes),
     findings : {0},
     systems : {0, 5},
     integration_types : {<<>>, <<"api_available", "legacy_system">>},
     industry : {"saas", "healthcare"}]

OptionSets ==
    [early_adopter : BOOLEAN,
     early_adopter_percent : {0, 20},
     audit_credit_amount : {0, 150, 3000},
     commitment_type : {NoValue, "retainer"},
     payment_terms : {NoValue, "upfront"},
     is_referral : BOOLEAN,
     timeline_pressure : {NoValue},
     client_readiness : {NoValue},
     data_sensitivity : {NoValue}]

FillIdle ==
    /\ run = [useGroq |-> FALSE, apiKey |-> TRUE, names |-> [r \in Slots |-> MappedName]]
    /\ doc = [p \in Paths |-> PlainText]
    /\ filled = doc
    /\ pc = [r \in Slots |-> "idle"]
    /\ attempt = [r \in Slots |-> 0]
    /\ bodyModel = [r \in Slots |-> 0]
    /\ lastErr = [r \in Slots |-> "none"]
    /\ tried = [r \in Slots |-> {}]
    /\ calls = [r \in Slots |-> 0]
    /\ results = [r \in Slots |-> <<>>]
    /\ model = 1
    /\ batchNo = 0
    /\ hist = [rateLimits |-> 0, exhausted |-> FALSE]
    /\ pipe = [pc |-> "llmFill", force |-> FALSE, success |-> FALSE, rendered |-> FALSE,
               method |-> NoValue, html |-> doc]

\* ---- the pricing engine applied to every audit extract and option set ----
Init ==
    /\ cfg \in Configs
    /\ audit \in Audits
    /\ opts = <<>>
    /\ breakdown = <<>>
    /\ FillIdle
    /\ fillPc = "off"
    /\ call = <<>>
    /\ ret = <<>>

CalculatePricing ==
    /\ breakdown = <<>>
    /\ \E o \in OptionSets :
          /\ opts' = <<o>>
          /\ breakdown' = <<calculatePricing(audit, o, cfg)>>
    /\ UNCHANGED <<cfg, audit>>
    /\ UNCHANGED fillVars
    /\ UNCHANGED libVars

Next == CalculatePricing

Spec == Init /\ [][Next]_vars

\* ---- one pipeline run from the fill on ----
SlotNames ==
    {[r \in Slots |-> IF r \in u THEN UnmappedName ELSE MappedName] :
        u \in {v \in SUBSET Slots : Cardinality(v) <= 1}}

FillInit ==
    /\ cfg = [rounding_increment |-> 100, minimum_project_value |-> 5000,
              discount_stacking |-> "highest_only"]
    /\ audit = [recommended_fixes |-> <<>>, findings |-> 0, systems |-> 0,
                integration_types |-> <<>>, industry |-> "saas"]
    /\ opts = <<>>
    /\ breakdown = <<>>
    /\ run \in [useGroq : BOOLEAN, apiKey : BOOLEAN, names : SlotNames]
    /\ doc = [p \in Paths |-> IF p = 0 THEN PlainText ELSE Sentinel(run.names[p])]
    /\ filled = doc
    /\ pc = [r \in Slots |-> "idle"]
    /\ attempt = [r \in Slots |-> 0]
    /\ bodyModel = [r \in Slots |-> 0]
    /\ lastErr = [r \in Slots |-> "none"]
    /\ tried = [r \in Slots |-> {}]
    /\ calls = [r \in Slots |-> 0]
    /\ results = [r \in Slots |-> <<>>]
    /\ model = 1
    /\ batchNo = 0
    /\ fillPc = "generating"
    /\ hist = [rateLimits |-> 0, exhausted |-> FALSE]
    /\ pipe = [pc |-> "llmFill", force |-> FALSE, success |-> FALSE, rendered |-> FALSE,
               method |-> NoValue, html |-> doc]
    /\ call = <<>>
    /\ ret = <<>>

FillNext ==
    \/ StartBatch
    \/ \E r \in Slots : \E o \in Outcomes(FALSE) : GeminiRespond(r, o)
    \/ \E r \in Slots : GeminiWake(r)
    \/ \E r \in Slots : \E o \in Outcomes(TRUE) : GroqRespond(r, o)
    \/ \E r \in Slots : GroqWake(r)
    \/ FinishFill
    \/ \E force \in BOOLEAN : PipelineValidate(force)
    \/ \E method \in {"llm", "kept", "manual"} : PipelinePolish(method)
    \/ \E ok \in BOOLEAN : PipelinePdf(ok)

FillSpec == FillInit /\ [][FillNext]_vars

(***************************************************************************)
(* Properties of the pricing engine (checked under Spec)                    *)
(***************************************************************************)
earlyAdopterAmount(b) ==
    IF b.early_adopter_discount = <<>> THEN 0 ELSE b.early_adopter_discount[1].amount

\* C1: the four milestone amounts of every breakdown add up to the subtotal
\* exactly, whatever the rounding of the design, build and test shares.
MilestonesSumToSubtotal ==
    breakdown # <<>> =>
        LET m == breakdown[1].milestones
        IN  m.design.amount + m.build.amount + m.test.amount + m.deploy.amount
                = breakdown[1].subtotal

\* a breakdown whose deploy share, rounded like the other three, would not
\* have made the sum come out
RemainderAbsorbed ==
    /\ breakdown # <<>>
    /\ breakdown[1].milestones.deploy.amount
           # milestoneShare(breakdown[1].subtotal, MilestoneAllocation.deploy)

\* C2: final_price == subtotal - audit_credit.amount - early_adopter_discount.amount
\* in every breakdown, a disabled early-adopter discount counting as 0.
FinalPriceReconciles ==
    breakdown # <<>> =>
        breakdown[1].final_price
            = breakdown[1].subtotal - breakdown[1].audit_credit.amount
                  - earlyAdopterAmount(breakdown[1])

\* C3: final_price is never below the configured minimum project value.
FinalPriceAtLeastMinimum ==
    breakdown # <<>> => breakdown[1].final_price >= cfg.minimum_project_value

\* a breakdown whose price after the credit lies under the minimum: the clamp
\* has acted
ClampApplied ==
    /\ breakdown # <<>>
    /\ breakdown[1].subtotal - breakdown[1].audit_credit.amount
           < cfg.minimum_project_value
    /\ breakdown[1].final_price = cfg.minimum_project_value

\* C4: the combined discount percentage never exceeds
\* maximum_combined_discount, under either stacking policy.
CombinedDiscountCapped ==
    breakdown # <<>> =>
        breakdown[1].discount.total_percentage <= MaximumCombinedDiscount

\* additive stacking of rules whose percentages add up to more than the maximum
AdditiveStackOverMaximum ==
    /\ breakdown # <<>>
    /\ cfg.discount_stacking # "highest_only"
    /\ Len(breakdown[1].discount.discounts_applied) >= 2
    /\ SeqSum(breakdown[1].discount.discounts_applied) > MaximumCombinedDiscount
    /\ breakdown[1].discount.total_percentage = MaximumCombinedDiscount

(***************************************************************************)
(* Properties of the fill run and of the pipeline (checked under FillSpec)  *)
(***************************************************************************)
failed(r) == results[r] # <<>> /\ ~results[r][1].success

RateLimitErrors == {"rate_limit", "rate_limit_all_models"}

BatchesAllSettled ==
    \A r, r2 \in Slots :
        BatchOf(r2) < BatchOf(r) /\ pc[r] # "idle" => Settled(r2)

\* a request of the next batch is in flight after a batch in which one
\* request failed and a sibling succeeded
NextBatchAfterFailure ==
    \E r, r2, r3 \in Slots :
        /\ BatchOf(r2) = BatchOf(r3) /\ r2 # r3 /\ BatchOf(r2) < BatchOf(r)
        /\ InFlight(r)
        /\ failed(r2)
        /\ results[r3] # <<>> /\ results[r3][1].success

\* C7: in the document fill returns, every slot whose generation failed holds
\* its original sentinel, and the slot's entry records the failure.
FailedSlotKeepsSentinel ==
    fillPc = "returned" =>
        \A r \in Slots :
            failed(r) =>
                /\ filled[results[r][1].path] = doc[r]
                /\ isPlaceholder(filled[r])
                /\ results[r][1].error # NoValue

\* fill has returned a document with a failed slot next to a generated one
ReturnedWithFailedSlot ==
    /\ fillPc = "returned"
    /\ \E r, r2 \in Slots :
          /\ failed(r) /\ results[r][1].error = "network"
          /\ filled[r2] = Generated(doc[r2].name)

\* C8: every slot of the filled document and of the pipeline's final output
\* holds either text of a successful backend response or its sentinel.
NoInventedText ==
    /\ fillPc = "returned" =>
          \A r \in Slots : filled[r] \in {Generated(doc[r].name), doc[r]}
    /\ pipe.rendered =>
          \A r \in Slots : pipe.html[r] \in {Generated(doc[r].name), doc[r]}

NoConcurrentModelAccess ==
    \A r \in Slots : pc[r] = "inflight" => bodyModel[r] = model

\* the models an error message names: GROQ_FALLBACK_ORDER.join(', ') in
\* "Groq rate limited on all models: ..."; no other message built by the
\* code holds a model name
errorNames(err) == IF err = "rate_limit_all_models" THEN 1..GroqOrderLen ELSE {}

\* request r fails in this step because the fallback list has no next model:
\* on Gemini the request that waited for the retry-after delay throws its
\* lastError, on Groq the 429 or 413 branch throws
failsExhausted(r) ==
    /\ pc[r] # "done" /\ pc'[r] = "done"
    /\ results'[r] # <<>> /\ ~results'[r][1].success
    /\ \/ pc[r] = "sleepRetryAfter" /\ results'[r][1].error = "rate_limit"
       \/ results'[r][1].error \in {"rate_limit_all_models", "too_large_all_models"}

\* C11: a request that fails on an exhausted fallback list reports a cause
\* that names every model its calls were sent to.
ExhaustedCauseNamesModels ==
    [][\A r \in Slots : failsExhausted(r) => tried[r] \subseteq errorNames(results'[r][1].error)]_vars

(***************************************************************************)
(* Documents as trees, and the path functions of lib/transform_proposal.js  *)
(* and lib/llm_batch_executor.js.  A JavaScript value is a record: t is its *)
(* type, s the text of a string, f the own properties of an object or       *)
(* array (property name -> value).  A property name and a path are text.    *)
(***************************************************************************)
NoFields == <<>>
Str(x) == [t |-> "str", s |-> x, f |-> NoFields]
Null == [t |-> "null", s |-> "", f |-> NoFields]
Undefined == [t |-> "undefined", s |-> "", f |-> NoFields]
Obj(fields) == [t |-> "obj", s |-> "", f |-> fields]
Arr(fields) == [t |-> "arr", s |-> "", f |-> fields]
\* the call ended in a TypeError
Thrown == [t |-> "thrown", s |-> "", f |-> NoFields]

isContainer(v) == v.t \in {"obj", "arr"}

Digits == {"0", "1"}

\* /^\d+$/.test(part)
isNumeric(part) == Len(part) > 0 /\ \A i \in 1..Len(part) : part[i] \in Digits

\* the length of the run of digits of s that starts at position i
RECURSIVE digitRun(_, _)
digitRun(str, i) ==
    IF i <= Len(str) /\ str[i] \in Digits THEN 1 + digitRun(str, i + 1) ELSE 0

\* path.replace(/\[(\d+)\]/g, '.$1'), from position i on
RECURSIVE replaceIndexes(_, _)
replaceIndexes(path, i) ==
    IF i > Len(path) THEN <<>>
    ELSE LET n == digitRun(path, i + 1)
         IN  IF path[i] = "[" /\ n > 0 /\ i + n + 1 <= Len(path) /\ path[i + n + 1] = "]"
             THEN <<".">> \o SubSeq(path, i + 1, i + n) \o replaceIndexes(path, i + n + 2)
             ELSE <<path[i]>> \o replaceIndexes(path, i + 1)

\* str.split('.'), from position i on, cur being the part read so far
RECURSIVE split(_, _, _)
split(str, i, cur) ==
    IF i > Len(str) THEN <<cur>>
    ELSE IF str[i] = "." THEN <<cur>> \o split(str, i + 1, <<>>)
    ELSE split(str, i + 1, Append(cur, str[i]))

\* const parts = path.replace(/\[(\d+)\]/g, '.$1').split('.')
pathParts(path) == split(replaceIndexes(path, 1), 1, <<>>)

\* current[part] = value
putProperty(current, part, value) ==
    [current EXCEPT !.f = [k \in DOMAIN current.f \cup {part} |->
                              IF k = part THEN value ELSE current.f[k]]]

\* the loop and the final assignment of setValueAtPath, on the parts left;
\* the module is strict code: the in operator on a value that is no object
\* and the assignment of a property to null or to a primitive throw
RECURSIVE setAtParts(_, _, _)
setAtParts(current, parts, value) ==
    IF ~isContainer(current) THEN Thrown
    ELSE IF Len(parts) = 1 THEN putProperty(current, parts[1], value)
    ELSE LET part == parts[1]
             \* part in current, for own properties
             child == IF part \in DOMAIN current.f THEN current.f[part]
                      ELSE IF isNumeric(parts[2]) THEN Arr(NoFields)
                      ELSE Obj(NoFields)
             sub == setAtParts(child, Tail(parts), value)
         IN  IF sub = Thrown THEN Thrown ELSE putProperty(current, part, sub)

\* setValueAtPath(obj, path, value) on a tree: obj after the call, or Thrown
setValueAtPathTree(obj, path, value) == setAtParts(obj, pathParts(path), value)

\* current[part] of getValueAtPath
getProperty(current, part) ==
    IF isContainer(current) /\ part \in DOMAIN current.f THEN current.f[part]
    ELSE Undefined

RECURSIVE getAtParts(_, _)
getAtParts(current, parts) ==
    IF parts = <<>> THEN current
    ELSE IF current.t \in {"undefined", "null"} THEN Undefined
    ELSE getAtParts(getProperty(current, parts[1]), Tail(parts))

getValueAtPath(obj, path) == getAtParts(obj, pathParts(path))

\* ---- setValueAtPath followed by getValueAtPath, on every document, path
\* ---- and value of the bounds ----
MaxPathLen == 4
PathChars == {"a", "0", ".", "[", "]"}

\* {}, {a: "s"}, {a: null}, {a: {}}, {a: []}, {a: {a: "s"}}, {a: ["s"]},
\* {a: {"0": null}}
TreeDocs ==
    { Obj(NoFields),
      Obj(<<"a">> :> Str("s")),
      Obj(<<"a">> :> Null),
      Obj(<<"a">> :> Obj(NoFields)),
      Obj(<<"a">> :> Arr(NoFields)),
      Obj(<<"a">> :> Obj(<<"a">> :> Str("s"))),
      Obj(<<"a">> :> Arr(<<"0">> :> Str("s"))),
      Obj(<<"a">> :> Obj(<<"0">> :> Null)) }

\* every variable of the pricing engine and of the fill run at rest
LibIdle ==
    /\ cfg = [rounding_increment |-> 100, minimum_project_value |-> 5000,
              discount_stacking |-> "highest_only"]
    /\ audit = [recommended_fixes |-> <<>>, findings |-> 0, systems |-> 0,
                integration_types |-> <<>>, industry |-> "saas"]
    /\ opts = <<>>
    /\ breakdown = <<>>
    /\ FillIdle
    /\ fillPc = "off"

PathInit ==
    /\ LibIdle
    /\ call \in {<<[fn |-> "setValueAtPath", obj |-> d, path |-> p, value |-> v]>> :
                    d \in TreeDocs, p \in SeqsUpTo(PathChars, MaxPathLen),
                    v \in {Str("v"), Null}}
    /\ ret = <<>>

\* setValueAtPath(obj, path, value); getValueAtPath(obj, path)
SetThenGet ==
    /\ call # <<>> /\ ret = <<>>
    /\ call[1].fn = "setValueAtPath"
    /\ LET after == setValueAtPathTree(call[1].obj, call[1].path, call[1].value)
       IN  ret' = <<[after |-> after,
                     got |-> IF after = Thrown THEN Thrown
                             ELSE getValueAtPath(after, call[1].path)]>>
    /\ UNCHANGED <<call, pricingVars, fillVars>>

PathSpec == PathInit /\ [][SetThenGet]_vars

\* C12: after setValueAtPath(doc, p, v), getValueAtPath(doc, p) is v, for
\* every document, path and value.
SetThenGetRoundTrip ==
    ret # <<>> /\ call[1].fn = "setValueAtPath" =>
        ret[1].after # Thrown /\ ret[1].got = call[1].value

DEFAULT_PRICING_VALIDATION ==
    [hard_floor_coverage_percent |-> 50, max_payback_months |-> 3,
     opportunity_lift_percent |-> 1, average_deal_value |-> 5000,
     daily_leads_default |-> 20]

\* Math.ceil(n / d) for d > 0
MathCeil(n, d) == -((-n) \div d)

\* monthly bleeds are whole dollars here, so Math.round leaves them alone
calculateHardLaborSavings(monthlyBleed) ==
    [monthly |-> MathRound(monthlyBleed, 1), annual |-> MathRound(monthlyBleed * 12, 1)]

calculateModeledOpportunity(config) ==
    LET monthlyLeads == config.daily_leads_default * 30
        \* convertedLeads * avgDealValue, over 100
        monthlyOpportunity100 ==
            monthlyLeads * config.opportunity_lift_percent * config.average_deal_value
    IN  [monthly |-> MathRound(monthlyOpportunity100, 100),
         annual |-> MathRound(monthlyOpportunity100 * 12, 100)]

\* payback_period_months is kept in tenths of a month; <<>> is Infinity
calculateROI(monthlyBleed, investmentTotal) ==
    LET config == DEFAULT_PRICING_VALIDATION
        hardSavings == calculateHardLaborSavings(monthlyBleed)
        modeledOpportunity == calculateModeledOpportunity(config)
        totalMonthlyValue == hardSavings.monthly + modeledOpportunity.monthly
    IN  [monthly_recovery |-> monthlyBleed,
         annual_recovery |-> monthlyBleed * 12,
         payback_period_tenths |->
             IF totalMonthlyValue > 0
             THEN <<MathCeil(investmentTotal * 10, totalMonthlyValue)>>
             ELSE <<>>,
         total_monthly_value |-> totalMonthlyValue]

CalculateROI ==
    /\ call # <<>> /\ ret = <<>>
    /\ call[1].fn = "calculateROI"
    /\ ret' = <<calculateROI(call[1].monthlyBleed, call[1].investmentTotal)>>
    /\ UNCHANGED <<call, pricingVars, fillVars>>

\* C14: calculateROI(monthlyBleed, finalPrice) returns payback_period_months
\* equal to ceil(finalPrice / monthlyBleed * 10) / 10; a bleed of 2000 and a
\* price of 15000 give 7.5.
PaybackIsPriceOverBleed ==
    ret # <<>> /\ call[1].fn = "calculateROI" =>
        ret[1].payback_period_tenths
            = <<MathCeil(call[1].investmentTotal * 10, call[1].monthlyBleed)>>

\* ---- proposal pricing section (src/lib/transform_proposal.js) ----

buildPricingSection(pricing) ==
    [subtotal |-> [amount |-> pricing.subtotal],
     total |-> [amount |-> pricing.final_price],
     payment_schedule |->
         [installments |->
             << [milestone_id |-> "2.1", amount |-> [amount |-> pricing.milestones.design.amount]],
                [milestone_id |-> "2.2", amount |-> [amount |-> pricing.milestones.build.amount]],
                [milestone_id |-> "2.3", amount |-> [amount |-> pricing.milestones.test.amount]],
                [milestone_id |-> "2.4", amount |-> [amount |-> pricing.milestones.deploy.amount]] >>]]

\* C15: in the proposal built from a breakdown, the four installments of the
\* payment schedule sum to pricing.total.amount, to within less than one
\* dollar.
InstallmentsSumToTotal ==
    breakdown # <<>> =>
        LET section == buildPricingSection(breakdown[1])
            inst == section.payment_schedule.installments
            milestoneTotal == SeqSum([i \in 1..Len(inst) |-> inst[i].amount.amount])
            diff == milestoneTotal - section.total.amount
        IN  diff < 1 /\ -diff < 1

\* ---- the writes of one fill, on tree documents (src/lib/llm_batch_executor.js) ----

\* obj.match(/\[LLM_PLACEHOLDER:\s*([^\]]+)\]/): the trimmed name, or <<>>
matchPlaceholder(str) ==
    IF str = "[LLM_PLACEHOLDER: executive_summary]" THEN <<"executive_summary">>
    ELSE IF str = "[LLM_PLACEHOLDER: value_proposition]" THEN <<"value_proposition">>
    ELSE <<>>

\* the traversal of findAllPlaceholders: every value that is no container,
\* with the path the recursion has built for it
RECURSIVE walk(_, _)
RECURSIVE walkEntries(_, _, _)
walk(obj, path) ==
    IF isContainer(obj) THEN walkEntries(obj, DOMAIN obj.f, path)
    ELSE <<[path |-> path, value |-> obj]>>

walkEntries(obj, keys, path) ==
    IF keys = {} THEN <<>>
    ELSE LET key == CHOOSE k \in keys : TRUE
             newPath == IF obj.t = "arr" THEN path \o <<"[">> \o key \o <<"]">>
                        ELSE IF path # <<>> THEN path \o <<".">> \o key
                        ELSE key
         IN  walk(obj.f[key], newPath) \o walkEntries(obj, keys \ {key}, path)

\* the strings of the traversal that hold a placeholder
findAllPlaceholdersTree(obj) ==
    LET leaves == SelectSeq(walk(obj, <<>>),
                            LAMBDA l : l.value.t = "str" /\ matchPlaceholder(l.value.s) # <<>>)
    IN  [i \in 1..Len(leaves) |->
            [path |-> leaves[i].path,
             placeholder_name |-> matchPlaceholder(leaves[i].value.s)[1],
             original |-> leaves[i].value]]

\* JSON.parse(JSON.stringify(v)): a property that is undefined is dropped, an
\* array element that is undefined becomes null
RECURSIVE jsonCopy(_)
jsonCopy(v) ==
    IF v.t = "obj"
    THEN Obj([k \in {x \in DOMAIN v.f : v.f[x].t # "undefined"} |-> jsonCopy(v.f[k])])
    ELSE IF v.t = "arr"
    THEN Arr([k \in DOMAIN v.f |-> IF v.f[k].t = "undefined" THEN Null ELSE jsonCopy(v.f[k])])
    ELSE v

\* the entry of results for one placeholder: the generated content, or the
\* original sentinel when generation failed for its name
slotResult(placeholder, failedNames) ==
    IF placeholder.placeholder_name \in failedNames
    THEN [path |-> placeholder.path, content |-> placeholder.original, success |-> FALSE]
    ELSE [path |-> placeholder.path, content |-> Str(placeholder.placeholder_name),
          success |-> TRUE]

\* for (const result of results) setValueAtPath(filledProposal, ...), the
\* first result only
applyFirstResultOnly(obj, res) ==
    IF res = <<>> \/ obj = Thrown THEN obj
    ELSE setValueAtPathTree(obj, res[1].path, res[1].content)

\* for (const result of results) setValueAtPath(filledProposal, result.path, result.content)
RECURSIVE applyResultsTree(_, _)
applyResultsTree(obj, res) ==
    IF res = <<>> \/ obj = Thrown THEN obj
    ELSE applyResultsTree(setValueAtPathTree(obj, res[1].path, res[1].content), Tail(res))

fillProposalPlaceholdersTree(proposal, failedNames) ==
    LET placeholders == findAllPlaceholdersTree(proposal)
        res == [i \in 1..Len(placeholders) |-> slotResult(placeholders[i], failedNames)]
    IN  [placeholders |-> placeholders,
         results |-> res,
         filledProposal |-> applyResultsTree(jsonCopy(proposal), res)]

\* the document with every placeholder string replaced, where it stands, by
\* the content generated for its name
RECURSIVE replaceSlots(_, _)
replaceSlots(v, failedNames) ==
    IF isContainer(v)
    THEN [v EXCEPT !.f = [k \in DOMAIN v.f |-> replaceSlots(v.f[k], failedNames)]]
    ELSE IF v.t = "str" /\ matchPlaceholder(v.s) # <<>>
              /\ matchPlaceholder(v.s)[1] \notin failedNames
    THEN Str(matchPlaceholder(v.s)[1])
    ELSE v

FillProposalPlaceholders ==
    /\ call # <<>> /\ ret = <<>>
    /\ call[1].fn = "fillProposalPlaceholders"
    /\ ret' = <<fillProposalPlaceholdersTree(call[1].proposal, call[1].failedNames)>>
    /\ UNCHANGED <<call, pricingVars, fillVars>>

\* C16: the writes of one fill are one write per slot found, at that slot's
\* path, and none elsewhere: the slot paths are pairwise distinct, and the
\* returned document is the copy of the proposal with each slot replaced by
\* its result's content, every other value read at its path being the same
\* as before.
OneWritePerSlotOnly ==
    ret # <<>> /\ call[1].fn = "fillProposalPlaceholders" =>
        LET r == ret[1]
            before == walk(call[1].proposal, <<>>)
        IN  /\ \A i, j \in 1..Len(r.placeholders) :
                   i # j => r.placeholders[i].path # r.placeholders[j].path
            /\ Len(r.results) = Len(r.placeholders)
            /\ \A i \in 1..Len(r.results) : r.results[i].path = r.placeholders[i].path
            /\ r.filledProposal = replaceSlots(jsonCopy(call[1].proposal), call[1].failedNames)
            /\ \A i \in 1..Len(before) :
                   getValueAtPath(r.filledProposal, before[i].path)
                       = replaceSlots(before[i].value, call[1].failedNames)

\* a fill of a document with two slots, one nested in an array, one of them
\* failing, and a non-slot string beside them
TwoSlotsOneFailed ==
    /\ ret # <<>> /\ call[1].fn = "fillProposalPlaceholders"
    /\ Len(ret[1].placeholders) = 2
    /\ \E i, j \in 1..2 : ret[1].results[i].success /\ ~ret[1].results[j].success
    /\ \E i \in 1..2 : \E k \in 1..Len(ret[1].placeholders[i].path) :
           ret[1].placeholders[i].path[k] = "["
    /\ ret[1].filledProposal # jsonCopy(call[1].proposal)

\* documents shaped as buildProposal shapes them: objects with schema keys,
\* arrays of objects, strings, null, a property left undefined; ES is the
\* executive_summary sentinel, VP the value_proposition one
SlotDocs ==
    LET ES == Str("[LLM_PLACEHOLDER: executive_summary]")
        VP == Str("[LLM_PLACEHOLDER: value_proposition]")
        a == <<"a">>
        b == <<"b">>
        i0 == <<"0">>
        i1 == <<"1">>
    IN  { Obj(a :> Str("s")),
          Obj(a :> ES),
          Obj(a :> ES @@ b :> Str("s")),
          Obj(a :> Obj(a :> ES @@ b :> VP) @@ b :> Null),
          Obj(a :> Obj(a :> ES @@ b :> ES)),
          Obj(a :> Undefined @@ b :> Obj(a :> Str("s") @@ b :> VP)),
          Obj(a :> Arr(i0 :> ES @@ i1 :> Str("s"))),
          Obj(a :> Arr(i0 :> Obj(b :> ES) @@ i1 :> Obj(b :> VP)) @@ b :> Str("s")),
          Obj(a :> Arr(i0 :> Obj(a :> Arr(i0 :> Obj(b :> VP))) ) @@ b :> ES),
          Obj(a :> Obj(i0 :> ES) @@ b :> Arr(i0 :> VP)),
          Obj(a :> Obj(a :> Obj(a :> ES)) @@ b :> Obj(a :> Arr(NoFields) @@ b :> Obj(NoFields))) }

\* ---- the fill run with its own steps scheduled ----

\* the steps the program takes by itself: a timer of a sleep fires, the loop
\* over the batches goes on, the results are applied; the answer to a fetch
\* is the backend's step
FillSteps ==
    \/ StartBatch
    \/ \E r \in Slots : GeminiWake(r)
    \/ \E r \in Slots : GroqWake(r)
    \/ FinishFill

FairFillSpec == FillInit /\ [][FillNext]_vars /\ WF_vars(FillSteps)

\* C17: each backend call is aborted after a fixed timeout, so a request
\* whose backend never answers still settles and the fill run completes.
UnansweredCallStillSettles ==
    /\ \A r \in Slots : (pc[r] = "inflight") ~> (pc[r] = "done")
    /\ <>(fillPc = "returned")

\* C18: a slot whose generation fails on the Gemini backend is retried on the
\* Groq backend before it is declared failed: every slot declared failed
\* for an error of the backend has had its last call made to Groq.
FailedOnlyAfterGroq ==
    \A r \in Slots :
        /\ results[r] # <<>>
        /\ ~results[r][1].success
        /\ results[r][1].error # "no_api_key"
        => run.useGroq

\* ---- proposal assembly (src/lib/transform_proposal.js) ----
\* env is what one call draws from outside its arguments: the stream of
\* uuids (seed), Math.floor(Math.random() * 9000) (random) and the clock, in
\* days (now)

\* the k-th uuidv4() of a call
uuidv4(env, k) == [seed |-> env.seed, n |-> k]

generateProposalNumber(env) == [sequence |-> env.random + 1000]

formatDateAlwaysNow(dateStr, env) == env.now

\* formatDate(dateStr): the day of dateStr, today when there is none
formatDate(dateStr, env) == IF dateStr = <<>> THEN env.now ELSE dateStr[1]

\* buildPhase1Audit, buildPhase2Stabilize, buildPhase3Scale: the ids and the
\* price allocations; the texts are literals
buildPhases(pricing, env) ==
    LET m == pricing.milestones
    IN  << [phase_id |-> uuidv4(env, 1), phase_number |-> 1,
            milestones |-> << [milestone_id |-> uuidv4(env, 2), price_allocation |-> 0] >>],
           [phase_id |-> uuidv4(env, 3), phase_number |-> 2,
            milestones |->
                << [milestone_id |-> uuidv4(env, 4), price_allocation |-> m.design.amount],
                   [milestone_id |-> uuidv4(env, 5), price_allocation |-> m.build.amount],
                   [milestone_id |-> uuidv4(env, 6), price_allocation |-> m.test.amount],
                   [milestone_id |-> uuidv4(env, 7), price_allocation |-> m.deploy.amount] >>],
           [phase_id |-> uuidv4(env, 8), phase_number |-> 3,
            milestones |-> << [milestone_id |-> uuidv4(env, 9), price_allocation |-> 0],
                              [milestone_id |-> uuidv4(env, 10), price_allocation |-> 0] >>] >>

\* the pricing buildProposal works with, for an extract without a project
\* plan: calculatePricing(extracted.raw_audit || extracted, ...)
proposalPricing(extracted, options, c) ==
    calculatePricing(IF "raw_audit" \in DOMAIN extracted THEN extracted.raw_audit
                     ELSE extracted,
                     options, c)

buildProposal(extracted, options, c, env) ==
    LET pricing == proposalPricing(extracted, options, c)
        monthlyBleed == extracted.bleed
        roi == calculateROI(monthlyBleed, pricing.final_price)
        phases == buildPhases(pricing, env)
        validDays == c.valid_days
        validUntil == env.now + validDays
        proposalNumber == generateProposalNumber(env)
    IN  [document |-> [document_id |-> uuidv4(env, 11),
                       proposal_number |-> proposalNumber,
                       created_at |-> env.now,
                       valid_until |-> validUntil,
                       valid_days |-> validDays],
         audit_reference |-> [audit_date |-> formatDate(extracted.audit_date, env),
                              bleed_total |-> monthlyBleed],
         pricing |-> buildPricingSection(pricing),
         roi |-> roi,
         phases |-> phases,
         cta |-> [link |-> proposalNumber, expires_display |-> validUntil]]

\* two calls of buildProposal with the same arguments
BuildProposalTwice ==
    /\ call # <<>> /\ ret = <<>>
    /\ call[1].fn = "buildProposal"
    /\ \E e1, e2 \in [seed : 1..2, random : {0, 8999}, now : 1..2] :
          ret' = <<[first |-> buildProposal(call[1].extracted, call[1].options,
                                            call[1].config, e1),
                    second |-> buildProposal(call[1].extracted, call[1].options,
                                             call[1].config, e2)]>>
    /\ UNCHANGED <<call, pricingVars, fillVars>>

\* a proposal with its generated identifiers, its proposal number and the
\* fields taken from the clock blanked
withoutGenerated(p) ==
    [p EXCEPT !.document = [valid_days |-> @.valid_days],
              !.audit_reference.audit_date = NoValue,
              !.cta = NoValue,
              !.phases = [i \in DOMAIN @ |->
                             [phase_number |-> @[i].phase_number,
                              prices |-> [j \in DOMAIN @[i].milestones |->
                                             @[i].milestones[j].price_allocation]]]]

statusOrder(status) ==
    CASE status = "critical" -> <<0>>
      [] status = "warning" -> <<1>>
      [] status = "healthy" -> <<2>>
      [] OTHER -> <<>>

\* statusOrder[a.status] || 1
sortKey(f) ==
    LET o == statusOrder(f.status)
    IN  IF o = <<>> \/ o[1] = 0 THEN 1 ELSE o[1]

\* [...q].sort((a, b) => keys[a] - keys[b]): Array.prototype.sort is stable
RECURSIVE sortByKeys(_, _)
sortByKeys(q, keys) ==
    IF q = <<>> THEN <<>>
    ELSE LET i == CHOOSE x \in 1..Len(q) :
                      \A y \in 1..Len(q) : keys[x] < keys[y] \/ (keys[x] = keys[y] /\ x <= y)
             without(s) == SubSeq(s, 1, i - 1) \o SubSeq(s, i + 1, Len(s))
         IN  <<q[i]>> \o sortByKeys(without(q), without(keys))

\* the fallback texts of an extract without findings are numbered 1..3
extractKeyFindings(findings, count) ==
    IF findings = <<>> THEN <<[text |-> 1], [text |-> 2], [text |-> 3]>>
    ELSE LET sorted == sortByKeys(findings, [i \in 1..Len(findings) |-> sortKey(findings[i])])
             top == SubSeq(sorted, 1, Min(count, Len(sorted)))
         IN  [i \in 1..Len(top) |-> top[i].finding]

ExtractKeyFindings ==
    /\ call # <<>> /\ ret = <<>>
    /\ call[1].fn = "extractKeyFindings"
    /\ ret' = <<extractKeyFindings(call[1].findings, call[1].count)>>
    /\ UNCHANGED <<call, pricingVars, fillVars>>

\* C20: extractKeyFindings returns the first N findings in the order
\* critical, warning, healthy, findings of equal severity in their original
\* order.
KeyFindingsBySeverity ==
    ret # <<>> /\ call[1].fn = "extractKeyFindings" /\ call[1].findings # <<>> =>
        LET findings == call[1].findings
            bySeverity == sortByKeys(findings,
                                     [i \in 1..Len(findings) |->
                                         statusOrder(findings[i].status)[1]])
            n == Min(call[1].count, Len(findings))
        IN  ret[1] = [i \in 1..n |-> bySeverity[i].finding]

\* ---- effort tiers (src/lib/pricing_calculator.js) ----

\* mapToEffortTier(fix.effort_tier || fix.complexity || 'moderate')
MapToEffortTier ==
    /\ call # <<>> /\ ret = <<>>
    /\ call[1].fn = "mapToEffortTier"
    /\ ret' = <<mapToEffortTier(call[1].effort)>>
    /\ UNCHANGED <<call, pricingVars, fillVars>>

\* C21: a descriptor that names one tier maps to that tier, and a descriptor
\* with none of the keywords maps to moderate.
DescriptorMapsToNamedTier ==
    ret # <<>> /\ call[1].fn = "mapToEffortTier" =>
        LET normalized == toLowerCase(call[1].effort)
            tierName == [trivial |-> kwTrivial, moderate |-> kwModerate,
                         complex |-> kwComplex, critical |-> kwCritical]
            keywords == {kwTrivial, kwSimple, kwQuick, kwCritical, kwMajor, kwComplex,
                         kwSignificant}
        IN  /\ \A tier \in DOMAIN tierName :
                   /\ includes(normalized, tierName[tier])
                   /\ \A kw \in keywords \ {tierName[tier]} : ~includes(normalized, kw)
                   => ret[1] = tier
            /\ (\A kw \in keywords : ~includes(normalized, kw)) => ret[1] = "moderate"

\* ---- the order of waiting and switching on the Gemini path ----

\* request r has its rate-limit error caught in this step
rateLimitCaught(r) ==
    /\ ~run.useGroq
    /\ pc[r] = "inflight"
    /\ pc'[r] \in {"sleepSwitch", "sleepRetryAfter"}

MaxTextLen == 6

\* text.substring(0, n)
truncateToSentence(text, maxLength) ==
    LET substring(n) == SubSeq(text, 1, Min(n, Len(text)))
        truncated == substring(maxLength)
        \* truncated.lastIndexOf(ch), as a 0-based index, -1 when absent
        lastIndexOf(ch) ==
            LET at == {i \in 1..Len(truncated) : truncated[i] = ch}
            IN  IF at = {} THEN -1 ELSE (CHOOSE i \in at : \A j \in at : j <= i) - 1
        lastBoundary == lastIndexOf(".")
        lastSpace == lastIndexOf(" ")
        dots == <<".", ".", ".">>
    IN  IF Len(text) <= maxLength THEN text
        ELSE IF 2 * lastBoundary > maxLength THEN substring(lastBoundary + 1)
        ELSE IF 5 * lastSpace > 4 * maxLength THEN substring(lastSpace) \o dots
        ELSE truncated \o dots

\* the result for one text: a string, or the list of its one line
postProcessOutput(content, promptDef) ==
    LET RECURSIVE trimStart(_)
        trimStart(s) == IF s # <<>> /\ Head(s) = " " THEN trimStart(Tail(s)) ELSE s
        RECURSIVE trimEnd(_)
        trimEnd(s) == IF s # <<>> /\ s[Len(s)] = " " THEN trimEnd(SubSeq(s, 1, Len(s) - 1))
                      ELSE s
        trimmed == trimEnd(trimStart(content))
        constraints == promptDef.output_constraints
        wrapped == <<"<", "p", ">">> \o trimmed \o <<"<", "/", "p", ">">>
    IN  IF promptDef.output_type = "array_of_strings"
        THEN IF trimmed = <<>> THEN <<>>
             ELSE <<truncateToSentence(trimmed, constraints.item_max_length)>>
        ELSE IF promptDef.output_type = "html_fragment"
        THEN IF 2 * Len(wrapped) > 3 * constraints.max_length
             THEN truncateToSentence(wrapped, constraints.max_length)
             ELSE wrapped
        ELSE IF Len(trimmed) > constraints.max_length
        THEN truncateToSentence(trimmed, constraints.max_length)
        ELSE trimmed

PostProcessOutput ==
    /\ call # <<>> /\ ret = <<>>
    /\ call[1].fn = "postProcessOutput"
    /\ ret' = <<postProcessOutput(call[1].content, call[1].promptDef)>>
    /\ UNCHANGED <<call, pricingVars, fillVars>>

\* C23: a post-processed text is never longer than max_length, and no
\* post-processed list item is longer than item_max_length.
TruncationEnforcesLimits ==
    ret # <<>> /\ call[1].fn = "postProcessOutput" =>
        LET constraints == call[1].promptDef.output_constraints
        IN  IF call[1].promptDef.output_type = "array_of_strings"
            THEN \A i \in 1..Len(ret[1]) : Len(ret[1][i]) <= constraints.item_max_length
            ELSE Len(ret[1]) <= constraints.max_length

\* C24: on either backend a payload-too-large answer, while a next model
\* exists, moves the run to that model and the request goes on (at once or
\* after the pause of a switch) instead of failing.
TooLargeAdvancesAndRetries ==
    [][\A r \in Slots :
          /\ GeminiRespond(r, "too_large") \/ GroqRespond(r, "too_large")
          /\ model < OrderLen(run.useGroq)
          => /\ model' = model + 1
             /\ pc'[r] \in {"inflight", "sleepSwitch"}]_vars

\* ---- scope section (src/lib/transform_proposal.js) ----
\* a fix is [fix |-> n]: n = 0 is an empty description, otherwise n is the
\* position of the fix in the extract and stands for its text; the generic
\* items are numbered -1, -2, -3

buildScopeSectionFallbackOnlyWhenEmpty(extracted) ==
    LET fixes == extracted.recommended_fixes
        inScope == SelectSeq(SubSeq(fixes, 1, Min(5, Len(fixes))), LAMBDA f : f.fix # 0)
    IN  [in_scope |-> IF inScope = <<>> THEN <<[fix |-> -1], [fix |-> -2], [fix |-> -3]>>
                      ELSE inScope]

\* buildScopeSection for an extract without project_plan.scope
buildScopeSection(extracted) ==
    LET fixes == extracted.recommended_fixes
        inScope == SelectSeq(SubSeq(fixes, 1, Min(5, Len(fixes))), LAMBDA f : f.fix # 0)
    IN  [in_scope |-> IF Len(inScope) < 3
                      THEN inScope \o <<[fix |-> -1], [fix |-> -2], [fix |-> -3]>>
                      ELSE inScope]

BuildScopeSection ==
    /\ call # <<>> /\ ret = <<>>
    /\ call[1].fn = "buildScopeSection"
    /\ ret' = <<buildScopeSection(call[1].extracted)>>
    /\ UNCHANGED <<call, pricingVars, fillVars>>

\* C25 as stated: in_scope is the first 5 non-empty fix descriptions of the
\* extract, in order, and the generic items appear only when the extract
\* has no non-empty fix description.
InScopeFirstFiveNonEmpty ==
    ret # <<>> /\ call[1].fn = "buildScopeSection" =>
        LET nonEmpty == SelectSeq(call[1].extracted.recommended_fixes, LAMBDA f : f.fix # 0)
        IN  ret[1].in_scope
                = IF nonEmpty = <<>> THEN <<[fix |-> -1], [fix |-> -2], [fix |-> -3]>>
                  ELSE SubSeq(nonEmpty, 1, Min(5, Len(nonEmpty)))

\* C25: in_scope lists, in order, exactly the non-empty descriptions among
\* the first 5 fixes of the extract, and the three generic items follow
\* them exactly when fewer than 3 descriptions were listed.
InScopeFromFirstFiveFixes ==
    ret # <<>> /\ call[1].fn = "buildScopeSection" =>
        LET fixes == call[1].extracted.recommended_fixes
            items == ret[1].in_scope
            listed == {i \in 1..Len(items) : items[i].fix > 0}
            generic == {i \in 1..Len(items) : items[i].fix < 0}
        IN  /\ \A i \in 1..Len(items) : items[i].fix # 0
            /\ {items[i].fix : i \in listed}
                   = {n \in 1..Min(5, Len(fixes)) : fixes[n].fix # 0}
            /\ \A i, j \in listed : i < j => items[i].fix < items[j].fix
            /\ \A i \in listed : \A j \in generic : i < j
            /\ IF Cardinality(listed) < 3
               THEN /\ Cardinality(generic) = 3
                    /\ [i \in 1..3 |-> items[Cardinality(listed) + i].fix] = <<-1, -2, -3>>
               ELSE generic = {}

\* an extract with one description among its first five fixes and another
\* in sixth place: the one is listed with the generic items after it
OneFixThenGenericItems ==
    /\ ret # <<>> /\ call[1].fn = "buildScopeSection"
    /\ Len(call[1].extracted.recommended_fixes) = 6
    /\ call[1].extracted.recommended_fixes[6].fix # 0
    /\ Len(ret[1].in_scope) = 4
    /\ ret[1].in_scope[1].fix > 0

\* C26: the fallback state moves past the current model, to its successor
\* or to exhaustion, only in a step in which a request is answered by a
\* call it made to that very model.
ModelPassedOnlyAfterItsOwnError ==
    [][model' # model \/ (hist'.exhausted /\ ~hist.exhausted) =>
          \E r \in Slots :
              /\ pc[r] = "inflight"
              /\ <<pc[r], attempt[r], results[r]>> # <<pc'[r], attempt'[r], results'[r]>>
              /\ bodyModel[r] = model]_vars

\* C27: a slot's request issues at most retries + 1 backend calls in all,
\* switches, waits and network retries counted together, on either
\* backend and whatever the length of the fallback list; the count of a
\* request under way is the number of loop iterations it has entered.
AtMostRetriesPlusOneCalls ==
    \A r \in Slots :
        /\ calls[r] <= Retries + 1
        /\ calls[r] = Calls(r)
        /\ pc[r] = "done" => results[r] # <<>>

\* a request on its last permitted call, on a backend whose list is longer
\* than the calls a request may make, after a switch of model
ThirdCallInFlight ==
    \E r \in Slots :
        /\ pc[r] = "inflight"
        /\ calls[r] = Retries + 1
        /\ OrderLen(run.useGroq) > Retries + 1
        /\ Cardinality(tried[r]) > 1

normalizeAuditFormat(data) ==
    LET \* data.fixes || data.recommended_fixes || []
        fixes == IF data.fixes # <<>> THEN data.fixes[1]
                 ELSE IF data.recommended_fixes # <<>> THEN data.recommended_fixes[1]
                 ELSE <<>>
    IN  IF data.format \in {"traffic_light_report", "simple_audit"}
        THEN [format |-> data.format,
              findings |-> data.categories,
              fixes |-> fixes,
              industry |-> data.industry,
              systems |-> 0,
              integration_types |-> <<>>]
        ELSE [format |-> "raw_intake",
              findings |-> 0,
              fixes |-> IF data.fixes # <<>> THEN data.fixes[1] ELSE <<>>,
              industry |-> data.industry,
              systems |-> 0,
              integration_types |-> <<>>]

extractFromAudit(auditInput) ==
    LET normalized == normalizeAuditFormat(auditInput)
        \* effort_tier: fix.effort_tier || fix.effort || 'moderate'
        extractRecommendedFixes ==
            [i \in 1..Len(normalized.fixes) |->
                IF normalized.fixes[i] = <<>> THEN kwModerate ELSE normalized.fixes[i]]
    IN  [findings |-> normalized.findings,
         recommended_fixes |-> extractRecommendedFixes,
         bleed |-> auditInput.bleed,
         audit_date |-> auditInput.audit_date,
         raw_audit |-> normalized]

\* buildProposal(extractFromAudit(audit), options), with the pricing it
\* computed on the way
BuildProposalFromAudit ==
    /\ call # <<>> /\ ret = <<>>
    /\ call[1].fn = "extractFromAudit"
    /\ \E env \in [seed : {1}, random : {0}, now : 1..2] :
          LET extracted == extractFromAudit(call[1].audit)
          IN  ret' = <<[extracted |-> extracted,
                        pricing |-> proposalPricing(extracted, call[1].options,
                                                    call[1].config),
                        proposal |-> buildProposal(extracted, call[1].options,
                                                   call[1].config, env)]>>
    /\ UNCHANGED <<call, pricingVars, fillVars>>

\* C29: the base price of a proposal built from the output of
\* extractFromAudit is the sum of the hours of the effort tiers of the
\* extract's recommended fixes times the weighted rate; the category count
\* times the moderate hours is used only when the extract has no fixes.
BasePriceFromExtractFixes ==
    ret # <<>> /\ call[1].fn = "extractFromAudit" =>
        LET fixes == ret[1].extracted.recommended_fixes
            categoryCount == IF ret[1].extracted.findings = 0 THEN 3
                             ELSE ret[1].extracted.findings
            rate == calculateWeightedRate(HourlyRates)
        IN  /\ fixes # <<>> => ret[1].pricing.base_price = fixHours(fixes) * rate
            /\ fixes = <<>> =>
                   ret[1].pricing.base_price = categoryCount * EffortTiers.moderate * rate

MaxSubtotalUnits == 20

\* allocateMilestones(totalPrice) on a subtotal as calculatePricing makes
\* them: a multiple of BASE_RATES.rounding_increment
AllocateMilestones ==
    /\ call # <<>> /\ ret = <<>>
    /\ call[1].fn = "allocateMilestones"
    /\ ret' = <<allocateMilestones(call[1].totalPrice)>>
    /\ UNCHANGED <<call, pricingVars, fillVars>>

LibInit ==
    /\ LibIdle
    /\ call \in
          {<<[fn |-> "calculateROI", monthlyBleed |-> b, investmentTotal |-> p]>> :
              b \in {500, 1000, 1500, 2000, 3000, 4000, 5000, 8000, 10000, 20000},
              p \in {2500, 5000, 7500, 10000, 12500, 15000, 20000, 25000, 40000, 60000}}
          \cup
          {<<[fn |-> "fillProposalPlaceholders", proposal |-> d, failedNames |-> f]>> :
              d \in SlotDocs, f \in SUBSET {"executive_summary", "value_proposition"}}
          \cup
          {<<[fn |-> "buildProposal",
              extracted |-> [raw_audit |-> a, audit_date |-> d, bleed |-> 2000],
              options |-> o,
              config |-> [rounding_increment |-> 100, minimum_project_value |-> 5000,
                          discount_stacking |-> "highest_only", valid_days |-> 14]]>> :
              a \in {x \in Audits : Len(x.recommended_fixes) = MaxFixes /\ x.systems = 5},
              d \in {<<>>, <<1>>},
              o \in {x \in OptionSets : x.audit_credit_amount = 0 /\ x.early_adopter_percent = 0
                                        /\ ~x.is_referral /\ x.commitment_type = NoValue
                                        /\ x.payment_terms = NoValue}}
          \cup
          {<<[fn |-> "extractKeyFindings",
              findings |-> [i \in 1..Len(st) |-> [finding |-> i, status |-> st[i]]],
              count |-> n]>> :
              st \in SeqsUpTo({"critical", "warning", "healthy"}, 3), n \in 1..3}
          \cup
          {<<[fn |-> "mapToEffortTier", effort |-> e]>> :
              e \in EffortTexts \cup
                    {kwTrivial, kwModerate, kwComplex, kwCritical, kwSignificant, kwSimple,
                     <<"C", "o", "m", "p", "l", "e", "x">>, <<"h", "a", "r", "d">>}}
          \cup
          {<<[fn |-> "postProcessOutput", content |-> t,
              promptDef |-> [output_type |-> k,
                             output_constraints |-> [max_length |-> 4,
                                                     item_max_length |-> 4]]]>> :
              t \in SeqsUpTo({"a", " ", "."}, MaxTextLen),
              k \in {"string", "array_of_strings", "html_fragment"}}
          \cup
          {<<[fn |-> "buildScopeSection",
              extracted |-> [recommended_fixes |->
                                [i \in 1..Len(d) |-> [fix |-> IF d[i] THEN i ELSE 0]]]]>> :
              d \in SeqsUpTo(BOOLEAN, 6)}
          \cup
          {<<[fn |-> "extractFromAudit",
              audit |-> [format |-> f, categories |-> n, industry |-> "saas",
                         fixes |-> IF k = "fixes" THEN <<x>> ELSE <<>>,
                         recommended_fixes |-> IF k = "recommended_fixes" THEN <<x>>
                                               ELSE <<>>,
                         bleed |-> 2000, audit_date |-> <<1>>],
              options |-> o,
              config |-> [rounding_increment |-> 100, minimum_project_value |-> 5000,
                          discount_stacking |-> "highest_only", valid_days |-> 14]]>> :
              f \in {"traffic_light_report", "simple_audit", "raw_intake"},
              n \in {0, 4},
              k \in {"fixes", "recommended_fixes"},
              x \in SeqsUpTo(EffortTexts, MaxFixes),
              o \in {y \in OptionSets : y.audit_credit_amount = 0
                                        /\ y.early_adopter_percent = 0
                                        /\ y.early_adopter /\ ~y.is_referral
                                        /\ y.commitment_type = NoValue
                                        /\ y.payment_terms = NoValue}}
          \cup
          {<<[fn |-> "allocateMilestones", totalPrice |-> k * c.rounding_increment,
              config |-> c]>> :
              c \in Configs, k \in 0..MaxSubtotalUnits}
    /\ ret = <<>>

LibNext ==
    \/ CalculateROI
    \/ FillProposalPlaceholders
    \/ BuildProposalTwice
    \/ ExtractKeyFindings
    \/ MapToEffortTier
    \/ PostProcessOutput
    \/ BuildScopeSection
    \/ BuildProposalFromAudit
    \/ AllocateMilestones

LibSpec == LibInit /\ [][LibNext]_vars

====
